---- MODULE Spec2Model ----
(***************************************************************************)
(* Noise handshake upgrade of network/src/noise/handshake.rs:              *)
(* AntiReplayTimestamps, HandshakeAuthMode and NoiseUpgrader               *)
(* (upgrade, upgrade_outbound, upgrade_inbound).                           *)
(*                                                                         *)
(* One dialing NoiseUpgrader ("client") and one listening NoiseUpgrader    *)
(* ("server") run handshakes over MaxConns socket pairs.  Every await      *)
(* point and every lock acquisition of the source is a step of its own, so *)
(* handshakes of different connections interleave exactly there.           *)
(* The Noise engine (libra_crypto::noise) is not part of the source file;  *)
(* it is modelled symbolically from its description.                       *)
(*                                                                         *)
(* Specifications: SpecInbound (the listener, any dialer), SpecPair (both  *)
(* upgraders over one socket pair), SpecPairFair (the same over reliable   *)
(* sockets, fairly scheduled), SpecLocks (the listener with locks that may *)
(* be poisoned), SpecStall (fairly scheduled handshakes of one listener,   *)
(* socket operations that may never complete), SpecGuard (direct calls on  *)
(* AntiReplayTimestamps) and Spec (everything but the last four).          *)
(***************************************************************************)
EXTENDS Integers, Sequences, FiniteSets, TLC

\* ------------------------------------------------------------ bounds
MaxConns == 2
MaxPairConns == 1
MaxTick == 2
TimeStep == 128

\* ------------------------------------------------------------ constants
PAYLOAD_SIZE == 8
X25519_PUBLIC_KEY_SIZE == 32
AES_GCM_TAGLEN == 16
ByteBase == 256

Conns == 1..MaxConns
PairConns == {c \in Conns : c <= MaxPairConns}
Times == {i * TimeStep : i \in 1..MaxTick}
Modes == {"Mutual", "ServerOnly"}
Upgraders == {"client", "server"}
Keys == {"kC", "kS", "kX"}
PeerIds == {"p1", "p2"}
Origins == {"Outbound", "Inbound"}

\* Option<T>: None is the empty sequence, Some(x) the one-element sequence.
None == << >>
Some(x) == << x >>
IsSome(o) == o # << >>
Unwrap(o) == o[1]

\* the keypair handed to NoiseUpgrader::new
StaticKey(u) == IF u = "client" THEN "kC" ELSE "kS"

\* ------------------------------------------------------------ u64 <-> bytes
RECURSIVE to_le_bytes_n(_, _)
to_le_bytes_n(n, k) ==
    IF k = 0 THEN << >>
    ELSE << n % ByteBase >> \o to_le_bytes_n(n \div ByteBase, k - 1)

to_le_bytes(n) == to_le_bytes_n(n, PAYLOAD_SIZE)

RECURSIVE from_le_bytes(_)
from_le_bytes(b) ==
    IF b = << >> THEN 0
    ELSE b[1] + ByteBase * from_le_bytes(Tail(b))

\* ------------------------------------------------------------ AntiReplayTimestamps
\* the map is a function from the keys seen so far to their last timestamp
is_replay_lt(store, pubkey, timestamp) ==
    IF pubkey \in DOMAIN store THEN timestamp < store[pubkey] ELSE FALSE

is_replay_never(store, pubkey, timestamp) == FALSE

is_replay_unseen(store, pubkey, timestamp) ==
    IF pubkey \in DOMAIN store THEN timestamp <= store[pubkey] ELSE TRUE

is_replay(store, pubkey, timestamp) ==
    IF pubkey \in DOMAIN store THEN timestamp <= store[pubkey] ELSE FALSE

store_timestamp_max(store, pubkey, timestamp) ==
    [k \in DOMAIN store \cup {pubkey} |->
        IF k = pubkey /\ (k \notin DOMAIN store \/ store[k] < timestamp)
        THEN timestamp ELSE store[k]]

store_timestamp(store, pubkey, timestamp) ==
    [k \in DOMAIN store \cup {pubkey} |->
        IF k = pubkey THEN timestamp ELSE store[k]]

\* ------------------------------------------------------------ HandshakeAuthMode
\* the accessors return Some(handle) in Mutual mode and None in ServerOnly
anti_replay_timestamps_of(mode) == IF mode = "Mutual" THEN Some("anti_replay_timestamps") ELSE None

trusted_peers_always(mode) == Some("trusted_peers")

trusted_peers_of(mode) == IF mode = "Mutual" THEN Some("trusted_peers") ELSE None

\* ------------------------------------------------------------ Noise engine
handshake_init_msg_len(payload_len) ==
    X25519_PUBLIC_KEY_SIZE + (X25519_PUBLIC_KEY_SIZE + AES_GCM_TAGLEN)
        + (payload_len + AES_GCM_TAGLEN)

handshake_resp_msg_len(payload_len) ==
    X25519_PUBLIC_KEY_SIZE + (payload_len + AES_GCM_TAGLEN)

\* payload is an Option; the message fills a buffer of buflen bytes, of which
\* the first handshake_init_msg_len(|payload|) are the Noise message
initiate_connection(self_key, remote_public, payload, buflen) ==
    LET bytes == IF IsSome(payload) THEN Unwrap(payload) ELSE << >>
    IN  IF buflen < handshake_init_msg_len(Len(bytes))
        THEN [ok |-> FALSE, msg |-> << >>, rs |-> remote_public]
        ELSE [ok |-> TRUE,
              msg |-> << [kind |-> "init", len |-> buflen, s |-> self_key,
                          rs |-> remote_public, payload |-> bytes,
                          intact |-> TRUE] >>,
              rs |-> remote_public]

\* the message must be intact and encrypted to our static key.  A buffer that
\* is exactly the Noise message of its payload parses; what the engine does
\* with a buffer that holds zero bytes after the Noise message is not part of
\* the source file: padding_ok says whether this engine accepts it (and
\* returns the payload of the message) or fails to authenticate it
parse_client_init_message(self_key, m, padding_ok) ==
    IF /\ m.kind = "init"
       /\ m.intact
       /\ m.rs = self_key
       /\ \/ m.len = handshake_init_msg_len(Len(m.payload))
          \/ padding_ok /\ m.len > handshake_init_msg_len(Len(m.payload))
    THEN [ok |-> TRUE, their_public_key |-> m.s, payload |-> m.payload]
    ELSE [ok |-> FALSE, their_public_key |-> m.s, payload |-> << >>]

respond_to_client(self_key, their_public_key, buflen) ==
    [kind |-> "resp", len |-> buflen, s |-> self_key,
     rs |-> their_public_key, payload |-> << >>, intact |-> TRUE]

\* the response proves possession of the static key the initiator dialled
finalize_connection(initiator_rs, m) ==
    /\ m.kind = "resp"
    /\ m.intact
    /\ m.s = initiator_rs
    /\ m.len = handshake_resp_msg_len(0)

\* ------------------------------------------------------------ state
VARIABLES
    cfgTest,                \* cfg!(any(test, feature = "fuzzing")) of the build
    auth_mode,              \* NoiseUpgrader.auth_mode, per upgrader
    trusted_peers,          \* the shared HashMap<PeerId, NetworkPeerInfo>
    anti_replay_timestamps, \* the server's AntiReplayTimestamps
    arLock,                 \* holder of the write lock on it, 0 when free
    ini,                    \* per connection: the upgrade_outbound call
    rsp,                    \* per connection: the upgrade_inbound call
    c2s,                    \* per connection: bytes in flight dialer -> listener
    s2c,                    \* per connection: bytes in flight listener -> dialer
    accepted,               \* history: timestamps stored per key, in order
    tpReaders,              \* handshakes holding a read guard on trusted_peers
    poisoned,               \* the RwLocks a panicking writer has poisoned
    lastCall                \* the last direct call on AntiReplayTimestamps

vars == << cfgTest, auth_mode, trusted_peers, anti_replay_timestamps, arLock,
           ini, rsp, c2s, s2c, accepted, tpReaders, poisoned, lastCall >>

IdleIni ==
    [pc |-> "idle", rs |-> None, payload |-> None, first_message |-> << >>,
     nwritten |-> 0, session |-> None, ret |-> None, err |-> "None",
     done |-> << >>]

IdleRsp ==
    [pc |-> "idle", nread |-> 0, their_public_key |-> None, payload |-> << >>,
     client_timestamp |-> None, server_response |-> << >>, nwritten |-> 0,
     session |-> None, ret |-> None, err |-> "None", done |-> << >>]

\* the two RwLocks of HandshakeAuthMode::Mutual
Locks == {"trusted_peers", "anti_replay_timestamps"}

\* no call has been made on the AntiReplayTimestamps outside a handshake
NoCall ==
    [op |-> "none", pubkey |-> "kC", timestamp |-> 0, before |-> None,
     result |-> FALSE]

\* the key each peer id declares (NetworkPeerInfo.identity_public_key)
PeerKey(peer_id) == IF peer_id = "p1" THEN "kC" ELSE "kS"

\* the entries the owner of the map inserts and removes while handshakes run
MutablePeers == {"p1"}

\* build_peers(true) puts both keys in one shared trusted-peer map; a map
\* without the listener's own key is the other starting point.  A Mutual
\* listener starts with the timestamps of `stored` (the handshakes of the
\* client key it accepted before) and its ReplayGuard holds the last of them.
InitState(builds, stored) ==
    /\ cfgTest \in builds
    /\ auth_mode \in [Upgraders -> Modes]
    /\ trusted_peers \in { [p \in D |-> PeerKey(p)] : D \in {PeerIds, MutablePeers} }
    /\ \E h \in stored :
        /\ h # << >> => auth_mode["server"] = "Mutual"
        /\ accepted = [k \in Keys |-> IF k = "kC" THEN h ELSE << >>]
        /\ anti_replay_timestamps =
               [k \in {x \in {"kC"} : h # << >>} |-> h[Len(h)]]
    /\ arLock = 0
    /\ ini = [c \in Conns |-> IdleIni]
    /\ rsp = [c \in Conns |-> IdleRsp]
    /\ c2s = [c \in Conns |-> << >>]
    /\ s2c = [c \in Conns |-> << >>]
    /\ tpReaders = {}
    /\ poisoned = {}
    /\ lastCall = NoCall

\* a build without cfg(test) and without the "fuzzing" feature, and a
\* listener that has accepted nothing yet
Init == InitState({FALSE}, {<< >>})

\* ------------------------------------------------------------ helpers
AbortIni(c, e) == [ini EXCEPT ![c] = [IdleIni EXCEPT !.pc = "aborted", !.err = e]]

AbortRsp(c, e) == [rsp EXCEPT ![c] = [IdleRsp EXCEPT !.pc = "aborted", !.err = e]]

\* ------------------------------------------------------------ upgrade (dispatch)
MissingKeyPanics(c) == [ini EXCEPT ![c] = [IdleIni EXCEPT !.pc = "panicked"]]

\* Outbound without a key: an error, or unreachable!() in a test/fuzzing build.
MissingKeyOutcome(c) ==
    IF cfgTest
    THEN [ini EXCEPT ![c] = [IdleIni EXCEPT !.pc = "panicked"]]
    ELSE AbortIni(c, "MissingRemoteKey")

\* lines 194-220 of upgrade_outbound: payload, buffer, initiate_connection
OutboundPayload(mode, now) ==
    IF mode = "Mutual" THEN Some(to_le_bytes(now)) ELSE None

OutboundBufLen(mode) == handshake_init_msg_len(PAYLOAD_SIZE)

\* what upgrade_outbound does with the first message: it writes it (line 223)
AfterInitiateReads == "read"

AfterInitiate == "write"

OutboundBegin(c, remote_public_key, now) ==
    LET mode    == auth_mode["client"]
        payload == OutboundPayload(mode, now)
        r       == initiate_connection(StaticKey("client"), remote_public_key,
                                       payload, OutboundBufLen(mode))
    IN  IF r.ok
        THEN [ini EXCEPT ![c].pc = AfterInitiate, ![c].rs = Some(remote_public_key),
                         ![c].payload = payload, ![c].first_message = r.msg,
                         ![c].done = << "initiate" >>]
        ELSE [AbortIni(c, "CryptoFailure") EXCEPT ![c].rs = Some(remote_public_key)]

upgrade(c, origin, remote_public_key) ==
    /\ IF origin = "Outbound"
       THEN /\ ini[c].pc = "idle"
            /\ c2s[c] = << >>
            /\ IF IsSome(remote_public_key)
               THEN \E now \in Times :
                        ini' = OutboundBegin(c, Unwrap(remote_public_key), now)
               ELSE ini' = MissingKeyOutcome(c)
            /\ UNCHANGED rsp
       ELSE /\ rsp[c].pc = "idle"
            /\ rsp' = [rsp EXCEPT ![c].pc = "read"]
            /\ UNCHANGED ini
    /\ UNCHANGED << cfgTest, auth_mode, tpReaders, poisoned, lastCall,
                    trusted_peers, anti_replay_timestamps,
                    arLock, c2s, s2c, accepted >>

\* ------------------------------------------------------------ upgrade_outbound
\* socket.write_all(&first_message).await?
OutWrite(c, io_ok) ==
    /\ ini[c].pc = "write"
    /\ IF io_ok
       THEN /\ c2s' = [c2s EXCEPT ![c] = @ \o ini[c].first_message]
            /\ ini' = [ini EXCEPT ![c].pc = "flush",
                                  ![c].nwritten = ini[c].first_message[1].len,
                                  ![c].done = Append(@, "write")]
       ELSE /\ ini' = AbortIni(c, "Transport")
            /\ UNCHANGED c2s
    /\ UNCHANGED << cfgTest, auth_mode, tpReaders, poisoned, lastCall,
                    trusted_peers, anti_replay_timestamps,
                    arLock, rsp, s2c, accepted >>

\* socket.flush().await?
OutFlush(c, io_ok) ==
    /\ ini[c].pc = "flush"
    /\ ini' = IF io_ok
              THEN [ini EXCEPT ![c].pc = "read", ![c].done = Append(@, "flush")]
              ELSE AbortIni(c, "Transport")
    /\ UNCHANGED << cfgTest, auth_mode, tpReaders, poisoned, lastCall,
                    trusted_peers, anti_replay_timestamps,
                    arLock, rsp, c2s, s2c, accepted >>

OutboundRespLen == handshake_resp_msg_len(0)

\* read_exact(&mut server_response), finalize_connection, NoiseStream::new,
\* and upgrade's get_remote_static() on the finished stream
OutFinalize(c, m) ==
    IF finalize_connection(Unwrap(ini[c].rs), m)
    THEN [ini EXCEPT ![c].pc = "established", ![c].session = ini[c].rs,
                     ![c].ret = ini[c].rs,
                     ![c].done = @ \o << "read", "finalize" >>]
    ELSE AbortIni(c, "CryptoFailure")

OutRead(c, io_ok) ==
    /\ ini[c].pc = "read"
    /\ IF io_ok
       THEN /\ s2c[c] # << >>
            /\ Head(s2c[c]).len = OutboundRespLen
            /\ s2c' = [s2c EXCEPT ![c] = Tail(@)]
            /\ ini' = OutFinalize(c, Head(s2c[c]))
       ELSE /\ ini' = AbortIni(c, "Transport")
            /\ UNCHANGED s2c
    /\ UNCHANGED << cfgTest, auth_mode, tpReaders, poisoned, lastCall,
                    trusted_peers, anti_replay_timestamps,
                    arLock, rsp, c2s, accepted >>

\* ------------------------------------------------------------ upgrade_inbound
InboundBufLen(mode) == handshake_init_msg_len(PAYLOAD_SIZE)

InboundRespLen == handshake_resp_msg_len(0)

\* the step that follows the trust check (line 293)
AfterTrust(mode) ==
    IF IsSome(anti_replay_timestamps_of(mode)) THEN "replay" ELSE "respond"

AfterParseSkipsTrust(mode) == AfterTrust(mode)

\* the step that follows parsing (line 269)
AfterParse(mode) ==
    IF IsSome(trusted_peers_of(mode)) THEN "trust_lock" ELSE AfterTrust(mode)

InParseSwapped(c, m, padding_ok) ==
    LET r == parse_client_init_message(StaticKey("server"), m, padding_ok)
    IN  IF r.ok
        THEN [rsp EXCEPT ![c].pc = AfterParse(auth_mode["server"]),
                         ![c].nread = m.len,
                         ![c].their_public_key = Some(m.rs),
                         ![c].payload = r.payload,
                         ![c].done = << "read", "parse" >>]
        ELSE AbortRsp(c, "CryptoFailure")

\* parse_client_init_message(&[], &client_init_message) on the bytes read
InParse(c, m, padding_ok) ==
    LET r == parse_client_init_message(StaticKey("server"), m, padding_ok)
    IN  IF r.ok
        THEN [rsp EXCEPT ![c].pc = AfterParse(auth_mode["server"]),
                         ![c].nread = m.len,
                         ![c].their_public_key = Some(r.their_public_key),
                         ![c].payload = r.payload,
                         ![c].done = << "read", "parse" >>]
        ELSE AbortRsp(c, "CryptoFailure")

\* socket.read_exact(&mut client_init_message).await?, then the parse
InRead(c, io_ok) ==
    /\ rsp[c].pc = "read"
    /\ IF io_ok
       THEN /\ c2s[c] # << >>
            /\ Head(c2s[c]).len = InboundBufLen(auth_mode["server"])
            /\ c2s' = [c2s EXCEPT ![c] = Tail(@)]
            /\ \E padding_ok \in BOOLEAN :
                   rsp' = InParse(c, Head(c2s[c]), padding_ok)
       ELSE /\ rsp' = AbortRsp(c, "Transport")
            /\ UNCHANGED c2s
    /\ UNCHANGED << cfgTest, auth_mode, tpReaders, poisoned, lastCall,
                    trusted_peers, anti_replay_timestamps,
                    arLock, ini, s2c, accepted >>

\* .iter().any(|(_, keys)| keys.identity_public_key == their_public_key)
TrustedFoundAny(tp, their_public_key) == DOMAIN tp # {}

TrustedFoundOrSeen(tp, their_public_key) ==
    \/ \E peer_id \in DOMAIN tp : tp[peer_id] = their_public_key
    \/ their_public_key \in DOMAIN anti_replay_timestamps

TrustedFound(tp, their_public_key) ==
    \E peer_id \in DOMAIN tp : tp[peer_id] = their_public_key

LockNeverPoisoned(l) == FALSE

\* read() and write() return Err on a poisoned lock
LockPoisoned(l) == l \in poisoned

\* a guard that goes out of scope releases its lock
KeepGuard(c, holders) == holders

DropGuard(c, holders) == holders \ {c}

\* lines 270-277: trusted_peers.read().map_err(..)?  A poisoned lock is an
\* error; a read guard is granted next to other readers (a writer holds the
\* lock only within one step of the owner of the map)
InTrustLock(c) ==
    /\ rsp[c].pc = "trust_lock"
    /\ IF LockPoisoned("trusted_peers")
       THEN /\ rsp' = AbortRsp(c, "LockFailure")
            /\ UNCHANGED tpReaders
       ELSE /\ rsp' = [rsp EXCEPT ![c].pc = "trust"]
            /\ tpReaders' = tpReaders \cup {c}
    /\ UNCHANGED << cfgTest, auth_mode, poisoned, lastCall, trusted_peers,
                    anti_replay_timestamps, arLock, ini, c2s, s2c, accepted >>

\* lines 278-290: the lookup under the read guard, a temporary that is dropped
\* at the end of the statement, before `found` is looked at
InCheckTrust(c) ==
    /\ rsp[c].pc = "trust"
    /\ rsp' = IF TrustedFound(trusted_peers, Unwrap(rsp[c].their_public_key))
              THEN [rsp EXCEPT ![c].pc = AfterTrust(auth_mode["server"]),
                               ![c].done = Append(@, "trust")]
              ELSE AbortRsp(c, "UntrustedPeer")
    /\ tpReaders' = DropGuard(c, tpReaders)
    /\ UNCHANGED << cfgTest, auth_mode, poisoned, lastCall, trusted_peers,
                    anti_replay_timestamps, arLock, ini, c2s, s2c, accepted >>

\* RwLock::write(): granted only while nobody holds the lock
NoExclusion(holder) == TRUE

WriteLockFree(holder) == holder = 0

PayloadAny(payload) == TRUE

\* line 295: payload.len() != PAYLOAD_SIZE is the malformed payload
PayloadWellFormed(payload) == Len(payload) = PAYLOAD_SIZE

\* lines 295-312: the payload length check, the decoding, and the write lock
InReplayLock(c) ==
    /\ rsp[c].pc = "replay"
    /\ IF ~PayloadWellFormed(rsp[c].payload)
       THEN /\ rsp' = AbortRsp(c, "MalformedPayload")
            /\ UNCHANGED arLock
       ELSE IF LockPoisoned("anti_replay_timestamps")
       THEN /\ rsp' = AbortRsp(c, "LockFailure")
            /\ UNCHANGED arLock
       ELSE /\ WriteLockFree(arLock)
            /\ arLock' = c
            /\ rsp' = [rsp EXCEPT ![c].pc = "replay_locked",
                           ![c].client_timestamp =
                               Some(from_le_bytes(rsp[c].payload))]
    /\ UNCHANGED << cfgTest, auth_mode, tpReaders, poisoned, lastCall,
                    trusted_peers, anti_replay_timestamps,
                    ini, c2s, s2c, accepted >>

StillHeldBy(c) == c

\* the holder of the write lock once the guard of handshake c is dropped
ReleasedBy(c) == 0

\* line 313: is_replay under the write lock; the error return drops the guard
InIsReplay(c) ==
    /\ rsp[c].pc = "replay_locked"
    /\ IF is_replay(anti_replay_timestamps, Unwrap(rsp[c].their_public_key),
                    Unwrap(rsp[c].client_timestamp))
       THEN /\ rsp' = AbortRsp(c, "ReplayedTimestamp")
            /\ arLock' = ReleasedBy(c)
       ELSE /\ rsp' = [rsp EXCEPT ![c].pc = "store"]
            /\ UNCHANGED arLock
    /\ UNCHANGED << cfgTest, auth_mode, tpReaders, poisoned, lastCall,
                    trusted_peers, anti_replay_timestamps,
                    ini, c2s, s2c, accepted >>

\* line 325: store_timestamp, then the guard is dropped at the end of the block
InStore(c) ==
    /\ rsp[c].pc = "store"
    /\ anti_replay_timestamps' =
           store_timestamp(anti_replay_timestamps,
                           Unwrap(rsp[c].their_public_key),
                           Unwrap(rsp[c].client_timestamp))
    /\ accepted' = [accepted EXCEPT ![Unwrap(rsp[c].their_public_key)] =
                        Append(@, Unwrap(rsp[c].client_timestamp))]
    /\ arLock' = ReleasedBy(c)
    /\ rsp' = [rsp EXCEPT ![c].pc = "respond", ![c].done = Append(@, "replay")]
    /\ UNCHANGED << cfgTest, auth_mode, tpReaders, poisoned, lastCall,
                    trusted_peers, ini, c2s, s2c >>

InRespondUnchecked(c, crypto_ok) ==
    /\ rsp[c].pc = "respond"
    /\ rsp' = [rsp EXCEPT ![c].pc = "write",
                   ![c].server_response =
                       << respond_to_client(StaticKey("server"),
                              Unwrap(rsp[c].their_public_key),
                              InboundRespLen) >>,
                   ![c].done = IF crypto_ok THEN Append(@, "respond") ELSE @]
    /\ UNCHANGED << cfgTest, auth_mode, tpReaders, poisoned, lastCall,
                    trusted_peers, anti_replay_timestamps,
                    arLock, ini, c2s, s2c, accepted >>

\* lines 329-334: respond_to_client(&mut rng, handshake_state, None, ..)
InRespond(c, crypto_ok) ==
    /\ rsp[c].pc = "respond"
    /\ rsp' = IF crypto_ok
              THEN [rsp EXCEPT ![c].pc = "write",
                       ![c].server_response =
                           << respond_to_client(StaticKey("server"),
                                  Unwrap(rsp[c].their_public_key),
                                  InboundRespLen) >>,
                       ![c].done = Append(@, "respond")]
              ELSE AbortRsp(c, "CryptoFailure")
    /\ UNCHANGED << cfgTest, auth_mode, tpReaders, poisoned, lastCall,
                    trusted_peers, anti_replay_timestamps,
                    arLock, ini, c2s, s2c, accepted >>

\* lines 337-340: write_all(&server_response), NoiseStream::new, and upgrade's
\* get_remote_static() on the finished stream
InWrite(c, io_ok) ==
    /\ rsp[c].pc = "write"
    /\ IF io_ok
       THEN /\ s2c' = [s2c EXCEPT ![c] = @ \o rsp[c].server_response]
            /\ rsp' = [rsp EXCEPT ![c].pc = "established",
                           ![c].nwritten = rsp[c].server_response[1].len,
                           ![c].session = rsp[c].their_public_key,
                           ![c].ret = rsp[c].their_public_key,
                           ![c].done = Append(@, "write")]
       ELSE /\ rsp' = AbortRsp(c, "Transport")
            /\ UNCHANGED s2c
    /\ UNCHANGED << cfgTest, auth_mode, tpReaders, poisoned, lastCall,
                    trusted_peers, anti_replay_timestamps,
                    arLock, ini, c2s, accepted >>

\* ------------------------------------------------------------ environment
\* a dialer that is not this NoiseUpgrader: a well-formed init message from
\* any key, with or without a timestamp payload, or a damaged one
EnvInitMsgs ==
    { [kind |-> "init", len |-> handshake_init_msg_len(PAYLOAD_SIZE), s |-> "kC",
       rs |-> "kS", payload |-> to_le_bytes(t), intact |-> TRUE] : t \in Times }
    \cup
    { [kind |-> "init", len |-> handshake_init_msg_len(PAYLOAD_SIZE), s |-> "kX",
       rs |-> "kS", payload |-> to_le_bytes(TimeStep), intact |-> b] :
         b \in BOOLEAN }
    \cup
    { [kind |-> "init", len |-> handshake_init_msg_len(0), s |-> "kX",
       rs |-> "kS", payload |-> << >>, intact |-> TRUE] }

EnvSendInit(c, m) ==
    /\ ini[c].pc = "idle"
    /\ c2s[c] = << >>
    /\ ini' = [ini EXCEPT ![c].pc = "env"]
    /\ c2s' = [c2s EXCEPT ![c] = << m >>]
    /\ UNCHANGED << cfgTest, auth_mode, tpReaders, poisoned, lastCall,
                    trusted_peers, anti_replay_timestamps,
                    arLock, rsp, s2c, accepted >>

\* the response is damaged on the wire
EnvTamperResp(c) ==
    /\ s2c[c] # << >>
    /\ Head(s2c[c]).intact
    /\ s2c' = [s2c EXCEPT ![c][1].intact = FALSE]
    /\ UNCHANGED << cfgTest, auth_mode, tpReaders, poisoned, lastCall,
                    trusted_peers, anti_replay_timestamps,
                    arLock, ini, rsp, c2s, accepted >>

\* the owner of the trusted-peer map updates it (HashMap::insert / remove)
\* under the write lock, which it gets while no handshake holds a read guard
TrustedInsert(peer_id, key) ==
    /\ peer_id \notin DOMAIN trusted_peers
    /\ tpReaders = {}
    /\ trusted_peers' = [p \in DOMAIN trusted_peers \cup {peer_id} |->
                            IF p = peer_id THEN key ELSE trusted_peers[p]]
    /\ UNCHANGED << cfgTest, auth_mode, tpReaders, poisoned, lastCall,
                    anti_replay_timestamps, arLock, ini,
                    rsp, c2s, s2c, accepted >>

TrustedRemove(peer_id) ==
    /\ peer_id \in DOMAIN trusted_peers
    /\ tpReaders = {}
    /\ trusted_peers' = [p \in DOMAIN trusted_peers \ {peer_id} |->
                            trusted_peers[p]]
    /\ UNCHANGED << cfgTest, auth_mode, tpReaders, poisoned, lastCall,
                    anti_replay_timestamps, arLock, ini,
                    rsp, c2s, s2c, accepted >>

\* a thread panicked while it held the write guard of the lock: from then on
\* read() and write() return Err (std::sync::RwLock poisoning)
PoisonLock(l) ==
    /\ l \notin poisoned
    /\ l = "trusted_peers" => tpReaders = {}
    /\ l = "anti_replay_timestamps" => arLock = 0
    /\ poisoned' = poisoned \cup {l}
    /\ UNCHANGED << cfgTest, auth_mode, tpReaders, lastCall, trusted_peers,
                    anti_replay_timestamps, arLock, ini, rsp, c2s, s2c,
                    accepted >>

\* ------------------------------------------------------------ direct calls
\* the value stored for pubkey when a call is made, as an Option
StoredFor(store, pubkey) ==
    IF pubkey \in DOMAIN store THEN Some(store[pubkey]) ELSE None

\* AntiReplayTimestamps::is_replay(&self, pubkey, timestamp) -> bool
CallIsReplay(pubkey, timestamp) ==
    /\ lastCall' = [op |-> "is_replay", pubkey |-> pubkey,
                    timestamp |-> timestamp,
                    before |-> StoredFor(anti_replay_timestamps, pubkey),
                    result |-> is_replay(anti_replay_timestamps, pubkey,
                                         timestamp)]
    /\ UNCHANGED << cfgTest, auth_mode, tpReaders, poisoned, trusted_peers,
                    anti_replay_timestamps, arLock, ini, rsp, c2s, s2c,
                    accepted >>

\* AntiReplayTimestamps::store_timestamp(&mut self, pubkey, timestamp)
CallStoreTimestamp(pubkey, timestamp) ==
    /\ anti_replay_timestamps' =
           store_timestamp(anti_replay_timestamps, pubkey, timestamp)
    /\ lastCall' = [op |-> "store_timestamp", pubkey |-> pubkey,
                    timestamp |-> timestamp,
                    before |-> StoredFor(anti_replay_timestamps, pubkey),
                    result |-> FALSE]
    /\ UNCHANGED << cfgTest, auth_mode, tpReaders, poisoned, trusted_peers,
                    arLock, ini, rsp, c2s, s2c, accepted >>

\* ------------------------------------------------------------ specification
\* the key a caller dials: the server's
DialKeys == {"kS"}

\* the dialing NoiseUpgrader runs on the connections of PairConns; on every
\* connection the dialer may instead be the environment
Next ==
    \/ \E c \in PairConns, k \in {None} \cup {Some(x) : x \in DialKeys} :
           upgrade(c, "Outbound", k)
    \/ \E c \in Conns : upgrade(c, "Inbound", None)
    \/ \E c \in PairConns, io_ok \in BOOLEAN : OutWrite(c, io_ok)
    \/ \E c \in PairConns, io_ok \in BOOLEAN : OutFlush(c, io_ok)
    \/ \E c \in PairConns, io_ok \in BOOLEAN : OutRead(c, io_ok)
    \/ \E c \in Conns, io_ok \in BOOLEAN : InRead(c, io_ok)
    \/ \E c \in Conns : InTrustLock(c)
    \/ \E c \in Conns : InCheckTrust(c)
    \/ \E c \in Conns : InReplayLock(c)
    \/ \E c \in Conns : InIsReplay(c)
    \/ \E c \in Conns : InStore(c)
    \/ \E c \in Conns, crypto_ok \in BOOLEAN : InRespond(c, crypto_ok)
    \/ \E c \in Conns, io_ok \in BOOLEAN : InWrite(c, io_ok)
    \/ \E c \in Conns, m \in EnvInitMsgs : EnvSendInit(c, m)
    \/ \E c \in Conns : EnvTamperResp(c)
    \/ \E p \in MutablePeers : TrustedInsert(p, PeerKey(p))
    \/ \E p \in MutablePeers : TrustedRemove(p)

Spec == Init /\ [][Next]_vars

\* the listening side alone, every dialer being the environment
InitInbound ==
    /\ Init
    /\ auth_mode["client"] = "Mutual"
    /\ DOMAIN trusted_peers = PeerIds

NextInbound ==
    \/ \E c \in Conns : upgrade(c, "Inbound", None)
    \/ \E c \in Conns, io_ok \in BOOLEAN : InRead(c, io_ok)
    \/ \E c \in Conns : InTrustLock(c)
    \/ \E c \in Conns : InCheckTrust(c)
    \/ \E c \in Conns : InReplayLock(c)
    \/ \E c \in Conns : InIsReplay(c)
    \/ \E c \in Conns : InStore(c)
    \/ \E c \in Conns, crypto_ok \in BOOLEAN : InRespond(c, crypto_ok)
    \/ \E c \in Conns, io_ok \in BOOLEAN : InWrite(c, io_ok)
    \/ \E c \in Conns, m \in EnvInitMsgs : EnvSendInit(c, m)
    \/ \E p \in MutablePeers : TrustedInsert(p, PeerKey(p))
    \/ \E p \in MutablePeers : TrustedRemove(p)

SpecInbound == InitInbound /\ [][NextInbound]_vars

\* this NoiseUpgrader at both ends of every connection
\* the listener's key, or a key nobody holds
PairDialKeys == {"kS", "kX"}

\* either build; the listener is fresh or has accepted one handshake before
InitPair == InitState(BOOLEAN, {<< >>, << TimeStep >>})

NextPair ==
    \/ \E c \in PairConns, o \in Origins, k \in {None} \cup {Some(x) : x \in PairDialKeys} :
           upgrade(c, o, k)
    \/ \E c \in PairConns, io_ok \in BOOLEAN : OutWrite(c, io_ok)
    \/ \E c \in PairConns, io_ok \in BOOLEAN : OutFlush(c, io_ok)
    \/ \E c \in PairConns, io_ok \in BOOLEAN : OutRead(c, io_ok)
    \/ \E c \in PairConns, io_ok \in BOOLEAN : InRead(c, io_ok)
    \/ \E c \in PairConns : InTrustLock(c)
    \/ \E c \in PairConns : InCheckTrust(c)
    \/ \E c \in PairConns : InReplayLock(c)
    \/ \E c \in PairConns : InIsReplay(c)
    \/ \E c \in PairConns : InStore(c)
    \/ \E c \in PairConns, crypto_ok \in BOOLEAN : InRespond(c, crypto_ok)
    \/ \E c \in PairConns, io_ok \in BOOLEAN : InWrite(c, io_ok)
    \/ \E c \in PairConns : EnvTamperResp(c)
    \/ \E p \in MutablePeers : TrustedInsert(p, PeerKey(p))
    \/ \E p \in MutablePeers : TrustedRemove(p)

SpecPair == InitPair /\ [][NextPair]_vars

\* a handshake whose socket operations complete: the steps of one
\* upgrade_outbound call and of one upgrade_inbound call over reliable sockets
IniRun(c) ==
    \/ OutWrite(c, TRUE)
    \/ OutFlush(c, TRUE)
    \/ OutRead(c, TRUE)

RspRun(c) ==
    \/ InRead(c, TRUE)
    \/ InTrustLock(c)
    \/ InCheckTrust(c)
    \/ InReplayLock(c)
    \/ InIsReplay(c)
    \/ InStore(c)
    \/ \E crypto_ok \in BOOLEAN : InRespond(c, crypto_ok)
    \/ InWrite(c, TRUE)

\* client and server joined over reliable socket pairs, as perform_handshake
\* does: no read, write or flush fails, and the executor polls every future
\* that can make progress (weak fairness per upgrade call)
NextPairFair ==
    \/ \E c \in PairConns, k \in PairDialKeys : upgrade(c, "Outbound", Some(k))
    \/ \E c \in PairConns : upgrade(c, "Inbound", None)
    \/ \E c \in PairConns : OutWrite(c, TRUE)
    \/ \E c \in PairConns : OutFlush(c, TRUE)
    \/ \E c \in PairConns : OutRead(c, TRUE)
    \/ \E c \in PairConns : InRead(c, TRUE)
    \/ \E c \in PairConns : InTrustLock(c)
    \/ \E c \in PairConns : InCheckTrust(c)
    \/ \E c \in PairConns : InReplayLock(c)
    \/ \E c \in PairConns : InIsReplay(c)
    \/ \E c \in PairConns : InStore(c)
    \/ \E c \in PairConns, crypto_ok \in BOOLEAN : InRespond(c, crypto_ok)
    \/ \E c \in PairConns : InWrite(c, TRUE)

FairPair == \A c \in PairConns : WF_vars(IniRun(c)) /\ WF_vars(RspRun(c))

SpecPairFair == InitPair /\ [][NextPairFair]_vars /\ FairPair

\* the listening side with locks that a panicking writer may poison; the
\* dialers hold the client key
TrustedInitMsgs == {m \in EnvInitMsgs : m.s = "kC"}

NextLocks ==
    \/ \E c \in Conns : upgrade(c, "Inbound", None)
    \/ \E c \in Conns, io_ok \in BOOLEAN : InRead(c, io_ok)
    \/ \E c \in Conns : InTrustLock(c)
    \/ \E c \in Conns : InCheckTrust(c)
    \/ \E c \in Conns : InReplayLock(c)
    \/ \E c \in Conns : InIsReplay(c)
    \/ \E c \in Conns : InStore(c)
    \/ \E c \in Conns, crypto_ok \in BOOLEAN : InRespond(c, crypto_ok)
    \/ \E c \in Conns, io_ok \in BOOLEAN : InWrite(c, io_ok)
    \/ \E c \in Conns, m \in TrustedInitMsgs : EnvSendInit(c, m)
    \/ \E p \in MutablePeers : TrustedInsert(p, PeerKey(p))
    \/ \E p \in MutablePeers : TrustedRemove(p)
    \/ \E l \in Locks : PoisonLock(l)

SpecLocks == InitInbound /\ [][NextLocks]_vars

\* the steps of upgrade_inbound between its awaits, and its awaits
RspInternal(c) ==
    \/ InTrustLock(c)
    \/ InCheckTrust(c)
    \/ InReplayLock(c)
    \/ InIsReplay(c)
    \/ InStore(c)
    \/ \E crypto_ok \in BOOLEAN : InRespond(c, crypto_ok)

\* a socket operation of the handshake completes
RspSocket(c) ==
    \/ InRead(c, TRUE)
    \/ InWrite(c, TRUE)

\* dialers that hold the client key and send the same timestamp
StallInitMsgs == {m \in TrustedInitMsgs : m.payload = to_le_bytes(TimeStep)}

\* concurrent inbound handshakes on one listener: a read completes once the
\* dialer has sent its message, which it may never do
NextStall ==
    \/ \E c \in Conns : upgrade(c, "Inbound", None)
    \/ \E c \in Conns : InRead(c, TRUE)
    \/ \E c \in Conns : InTrustLock(c)
    \/ \E c \in Conns : InCheckTrust(c)
    \/ \E c \in Conns : InReplayLock(c)
    \/ \E c \in Conns : InIsReplay(c)
    \/ \E c \in Conns : InStore(c)
    \/ \E c \in Conns, crypto_ok \in BOOLEAN : InRespond(c, crypto_ok)
    \/ \E c \in Conns : InWrite(c, TRUE)
    \/ \E c \in Conns, m \in StallInitMsgs : EnvSendInit(c, m)
    \/ \E p \in MutablePeers : TrustedInsert(p, PeerKey(p))
    \/ \E p \in MutablePeers : TrustedRemove(p)

\* a thread of the executor runs every handshake that is not suspended; a
\* socket operation may stay pending for ever
FairInternal == \A c \in Conns : WF_vars(RspInternal(c))

SpecStall == InitInbound /\ [][NextStall]_vars /\ FairInternal

\* the AntiReplayTimestamps alone: any map over the keys, any call on it
Stamps == 0..MaxTick

InitGuard ==
    /\ cfgTest = FALSE
    /\ auth_mode = [u \in Upgraders |-> "Mutual"]
    /\ trusted_peers = [p \in PeerIds |-> PeerKey(p)]
    /\ \E K \in SUBSET Keys : anti_replay_timestamps \in [K -> Stamps]
    /\ accepted = [k \in Keys |-> << >>]
    /\ arLock = 0
    /\ ini = [c \in Conns |-> IdleIni]
    /\ rsp = [c \in Conns |-> IdleRsp]
    /\ c2s = [c \in Conns |-> << >>]
    /\ s2c = [c \in Conns |-> << >>]
    /\ tpReaders = {}
    /\ poisoned = {}
    /\ lastCall = NoCall

NextGuard ==
    \/ \E k \in Keys, t \in Stamps : CallIsReplay(k, t)
    \/ \E k \in Keys, t \in Stamps : CallStoreTimestamp(k, t)

SpecGuard == InitGuard /\ [][NextGuard]_vars

\* ------------------------------------------------------------ properties
\* the handshake of connection c takes a step
RspStep(c) == rsp'[c] # rsp[c]

IniStep(c) == ini'[c] # ini[c]

\* the clock value an 8-byte payload was made from
CarriedTimestamp(payload) == CHOOSE t \in Times : to_le_bytes(t) = payload

PolicyErrors == {"UntrustedPeer", "MalformedPayload", "ReplayedTimestamp"}

InCriticalSection(c) == rsp[c].pc \in {"replay_locked", "store"}

\* C1: in Mutual mode the stored value of a peer is the last timestamp accepted
\* from it; a handshake from that peer whose timestamp is not above the stored
\* value T aborts with ReplayedTimestamp and leaves T stored, one whose
\* timestamp is above it (or the first from that peer) passes the check, has
\* its timestamp stored, and from then on fails only on a crypto or transport
\* error.
C1_ReplayRejected ==
    /\ [](\A k \in DOMAIN anti_replay_timestamps :
            /\ accepted[k] # << >>
            /\ anti_replay_timestamps[k] = accepted[k][Len(accepted[k])])
    /\ [][\A c \in Conns :
            (rsp[c].pc = "replay_locked" /\ RspStep(c)) =>
                LET k == Unwrap(rsp[c].their_public_key)
                    t == CarriedTimestamp(rsp[c].payload)
                IN  IF k \in DOMAIN anti_replay_timestamps
                       /\ t <= anti_replay_timestamps[k]
                    THEN /\ rsp'[c].pc = "aborted"
                         /\ rsp'[c].err = "ReplayedTimestamp"
                         /\ anti_replay_timestamps' = anti_replay_timestamps
                    ELSE /\ rsp'[c].pc = "store"
                         /\ rsp'[c].err = "None"]_vars
    /\ [][\A c \in Conns :
            (rsp[c].pc = "store" /\ RspStep(c)) =>
                /\ rsp'[c].pc = "respond"
                /\ anti_replay_timestamps'[Unwrap(rsp[c].their_public_key)]
                       = CarriedTimestamp(rsp[c].payload)]_vars
    /\ [][\A c \in Conns :
            (rsp[c].pc \in {"respond", "write"} /\ RspStep(c)) =>
                \/ rsp'[c].pc \in {"write", "established"}
                \/ rsp'[c].err \in {"CryptoFailure", "Transport"}]_vars

\* one handshake of a peer is established, a later one of the same peer was
\* rejected as a replay
C1_Witness ==
    \E c1, c2 \in Conns :
        /\ c1 # c2
        /\ rsp[c1].pc = "established"
        /\ rsp[c1].ret = Some("kC")
        /\ rsp[c2].err = "ReplayedTimestamp"
        /\ "kC" \in DOMAIN anti_replay_timestamps

\* C2: the check and the store of one handshake are one critical section under
\* the write lock: at most one handshake is between its is_replay and the end
\* of its store_timestamp, it is the lock holder, and per key the timestamps
\* stored are strictly increasing in the order they were stored.
C2_SerializedAcceptance ==
    /\ \A k \in Keys : \A i, j \in 1..Len(accepted[k]) :
           i < j => accepted[k][i] < accepted[k][j]
    /\ \A c1, c2 \in Conns :
           (InCriticalSection(c1) /\ InCriticalSection(c2)) => c1 = c2
    /\ \A c \in Conns : InCriticalSection(c) <=> arLock = c

\* two handshakes of one peer carry the same timestamp at the same time: one
\* holds the lock, the other waits for it
C2_Witness ==
    \E c1, c2 \in Conns :
        /\ c1 # c2
        /\ InCriticalSection(c1)
        /\ rsp[c2].pc = "replay"
        /\ rsp[c1].their_public_key = rsp[c2].their_public_key
        /\ rsp[c1].payload = rsp[c2].payload

\* C3: when the lookup of a Mutual responder finds no entry declaring the
\* initiator's key, that step aborts the handshake with UntrustedPeer; neither
\* that step nor any earlier step of the handshake changes the ReplayGuard.
C3_UntrustedRejected ==
    /\ [][\A c \in Conns :
            (rsp[c].pc = "trust" /\ RspStep(c)
               /\ ~ \E p \in DOMAIN trusted_peers :
                       trusted_peers[p] = Unwrap(rsp[c].their_public_key)) =>
                /\ rsp'[c].pc = "aborted"
                /\ rsp'[c].err = "UntrustedPeer"]_vars
    /\ [][\A c \in Conns :
            (rsp[c].pc \in {"idle", "read", "trust_lock", "trust"} /\ RspStep(c)) =>
                /\ anti_replay_timestamps' = anti_replay_timestamps
                /\ accepted' = accepted
                /\ arLock' = arLock]_vars

\* a handshake was refused as untrusted while the ReplayGuard holds an entry
C3_Witness ==
    \E c \in Conns :
        /\ rsp[c].err = "UntrustedPeer"
        /\ DOMAIN anti_replay_timestamps # {}

\* C8: a ServerOnly responder has no trusted-peer set and no ReplayGuard, never
\* enters the trust or replay steps, never fails with a policy error, never
\* stores a timestamp, and goes from a parsed init message straight to the
\* response; it aborts only on a crypto or transport error.
C8_ServerOnlyUnchecked ==
    /\ [](auth_mode["server"] = "ServerOnly" =>
            /\ trusted_peers_of(auth_mode["server"]) = None
            /\ anti_replay_timestamps_of(auth_mode["server"]) = None
            /\ DOMAIN anti_replay_timestamps = {}
            /\ arLock = 0
            /\ \A c \in Conns :
                   /\ rsp[c].pc \notin {"trust_lock", "trust", "replay",
                                         "replay_locked", "store"}
                   /\ rsp[c].err \notin PolicyErrors)
    /\ [][\A c \in Conns :
            (auth_mode["server"] = "ServerOnly" /\ RspStep(c)) =>
                \/ rsp'[c].err \in {"CryptoFailure", "Transport"}
                \/ /\ rsp[c].pc = "idle" /\ rsp'[c].pc = "read"
                \/ /\ rsp[c].pc = "read" /\ rsp'[c].pc = "respond"
                \/ /\ rsp[c].pc = "respond" /\ rsp'[c].pc = "write"
                \/ /\ rsp[c].pc = "write" /\ rsp'[c].pc = "established"]_vars

\* a ServerOnly responder completed two handshakes of the same initiator key,
\* one of a key that no trusted-peer entry declares
C8_Witness ==
    /\ auth_mode["server"] = "ServerOnly"
    /\ \E c1, c2 \in Conns :
        /\ c1 # c2
        /\ rsp[c1].pc = "established"
        /\ rsp[c2].pc = "established"
        /\ rsp[c1].ret = Some("kX")
        /\ rsp[c2].ret = Some("kX")

\* C4: when the two upgraders of a connection are in different modes, neither
\* end of a handshake between them reaches Established.
C4_ModeMismatchFails ==
    \A c \in Conns :
        (auth_mode["client"] # auth_mode["server"] /\ ini[c].pc # "env") =>
            /\ ini[c].pc # "established"
            /\ rsp[c].pc # "established"

\* C5: when both ends of a connection are Established, the key the initiator's
\* upgrade returns is the responder's static key, the key the responder's
\* upgrade returns is the initiator's static key, and each is the key of the
\* finished session.
C5_KeysAgree ==
    \A c \in Conns :
        (ini[c].pc = "established" /\ rsp[c].pc = "established") =>
            /\ ini[c].ret = Some(StaticKey("server"))
            /\ rsp[c].ret = Some(StaticKey("client"))
            /\ ini[c].ret = ini[c].session
            /\ rsp[c].ret = rsp[c].session

\* both upgraders in Mutual mode, both ends Established
C5_Witness ==
    \E c \in Conns :
        /\ auth_mode["client"] = "Mutual"
        /\ auth_mode["server"] = "Mutual"
        /\ ini[c].pc = "established"
        /\ rsp[c].pc = "established"

\* C7: an outbound handshake of a Mutual upgrader is Established only if an
\* entry of the trusted-peer set declares the key it dialled (the entry of
\* that key is never inserted or removed while handshakes run, so the set at
\* the end of the handshake is the set throughout it).
C7_OutboundTrustChecked ==
    \A c \in Conns :
        (auth_mode["client"] = "Mutual" /\ ini[c].pc = "established") =>
            \E p \in DOMAIN trusted_peers :
                trusted_peers[p] = Unwrap(ini[c].rs)

\* the payload length a policy implies
PolicyPayloadLen(mode) == IF mode = "Mutual" THEN PAYLOAD_SIZE ELSE 0

\* C10: the init message an upgrader writes, and the init message it reads,
\* has the length of its policy's payload (8 bytes in Mutual mode, none in
\* ServerOnly mode); the response has the length of an empty payload.
C10_InitLenByPolicy ==
    \A c \in Conns :
        /\ ini[c].nwritten > 0 =>
               ini[c].nwritten =
                   handshake_init_msg_len(PolicyPayloadLen(auth_mode["client"]))
        /\ rsp[c].nread > 0 =>
               rsp[c].nread =
                   handshake_init_msg_len(PolicyPayloadLen(auth_mode["server"]))
        /\ rsp[c].nwritten > 0 => rsp[c].nwritten = handshake_resp_msg_len(0)

\* an Outbound upgrade call that ends at once, without a key to dial
OutboundWithoutKey(c) ==
    /\ ini[c].pc = "idle"
    /\ ini'[c].pc \notin {"idle", "env"}
    /\ ini'[c].rs = None

\* C9 as stated: every Outbound upgrade without a remote key returns the
\* missing-remote-key error, touches no socket and creates no session; an
\* Inbound upgrade starts reading whatever key it is given.
C9_MissingKeyIsError ==
    [][\A c \in Conns :
         /\ OutboundWithoutKey(c) =>
                /\ ini'[c].pc = "aborted"
                /\ ini'[c].err = "MissingRemoteKey"
                /\ ini'[c].session = None
                /\ c2s' = c2s /\ s2c' = s2c
         /\ (rsp[c].pc = "idle" /\ RspStep(c)) =>
                /\ rsp'[c].pc = "read"
                /\ rsp'[c].err = "None"]_vars

\* C9 amended: in a build without cfg(test) and without the fuzzing feature
\* the call returns the missing-remote-key error; in a test or fuzzing build
\* it panics and returns nothing.  In both it touches no socket and creates no
\* session, and an Inbound upgrade starts reading whatever key it is given.
C9_MissingKeyByBuild ==
    [][\A c \in Conns :
         /\ OutboundWithoutKey(c) =>
                /\ IF cfgTest
                   THEN ini'[c].pc = "panicked" /\ ini'[c].err = "None"
                   ELSE ini'[c].pc = "aborted" /\ ini'[c].err = "MissingRemoteKey"
                /\ ini'[c].session = None
                /\ c2s' = c2s /\ s2c' = s2c
         /\ (rsp[c].pc = "idle" /\ RspStep(c)) =>
                /\ rsp'[c].pc = "read"
                /\ rsp'[c].err = "None"]_vars

\* the error was returned, with nothing on either socket
C9_Witness ==
    \E c \in Conns :
        /\ ini[c].err = "MissingRemoteKey"
        /\ ~cfgTest
        /\ c2s[c] = << >>
        /\ s2c[c] = << >>

\* the steps of a complete handshake, in order
FullInbound(mode) ==
    IF mode = "Mutual"
    THEN << "read", "parse", "trust", "replay", "respond", "write" >>
    ELSE << "read", "parse", "respond", "write" >>

FullOutbound == << "initiate", "write", "flush", "read", "finalize" >>

IsPrefix(a, b) == Len(a) <= Len(b) /\ SubSeq(b, 1, Len(a)) = a

\* C6: a handshake holds a session exactly when it is Established, and then
\* every step of its sequence succeeded, once each and in order; it is Aborted
\* exactly when a step failed; Established and Aborted are terminal, and no
\* step is taken twice.
C6_AllOrNothing ==
    /\ [](\A c \in Conns :
            /\ IsSome(rsp[c].session) <=> rsp[c].pc = "established"
            /\ IsSome(ini[c].session) <=> ini[c].pc = "established"
            /\ rsp[c].pc = "established" =>
                   /\ rsp[c].done = FullInbound(auth_mode["server"])
                   /\ rsp[c].err = "None"
            /\ ini[c].pc = "established" =>
                   /\ ini[c].done = FullOutbound
                   /\ ini[c].err = "None"
            /\ rsp[c].pc = "aborted" <=> rsp[c].err # "None"
            /\ ini[c].pc = "aborted" <=> ini[c].err # "None")
    /\ [][\A c \in Conns :
            /\ rsp[c].pc \in {"aborted", "established"} => ~RspStep(c)
            /\ ini[c].pc \in {"aborted", "established", "panicked"} => ~IniStep(c)
            /\ RspStep(c) =>
                   /\ rsp'[c].pc # rsp[c].pc
                   /\ rsp'[c].pc = "aborted" \/ IsPrefix(rsp[c].done, rsp'[c].done)
            /\ IniStep(c) =>
                   /\ ini'[c].pc # ini[c].pc
                   /\ ini'[c].pc \in {"aborted", "panicked"}
                          \/ IsPrefix(ini[c].done, ini'[c].done)]_vars

\* a policy check failed and the handshake is Aborted at both ends, without a
\* session and with nothing written back
C6_Witness ==
    \E c \in Conns :
        /\ rsp[c].pc = "aborted"
        /\ rsp[c].err = "ReplayedTimestamp"
        /\ ini[c].pc = "aborted"
        /\ ini[c].err = "Transport"
        /\ s2c[c] = << >>

\* both ends of connection c hold a session
BothEstablished(c) == ini[c].pc = "established" /\ rsp[c].pc = "established"

\* C11: over reliable sockets and under fair scheduling, once the outbound and
\* the inbound upgrade of a connection have both been called by upgraders in
\* the same mode (in Mutual mode with both keys in the shared trusted-peer
\* set), both ends eventually are Established, unless a crypto step failed or
\* the timestamp was not fresh.
C11_BothEstablish ==
    \A c \in PairConns :
        (/\ ini[c].pc # "idle"
         /\ rsp[c].pc # "idle"
         /\ auth_mode["client"] = auth_mode["server"]
         /\ auth_mode["server"] = "Mutual" => DOMAIN trusted_peers = PeerIds)
        ~> (\/ BothEstablished(c)
            \/ rsp[c].err \in {"CryptoFailure", "ReplayedTimestamp"}
            \/ ini[c].err = "CryptoFailure")

\* two ServerOnly upgraders, both ends Established
C11_Witness ==
    \E c \in PairConns :
        /\ auth_mode["client"] = "ServerOnly"
        /\ auth_mode["server"] = "ServerOnly"
        /\ BothEstablished(c)

\* C12: a direct call is_replay(k, t) returns true exactly when a timestamp is
\* stored for k and t is not above it, so it returns false for every t while k
\* has no entry; right after store_timestamp(k, s) the answer for k is true
\* for every t <= s and false for every t > s; and the call leaves the map as
\* it was.
C12_IsReplayIffStored ==
    /\ [](lastCall.op = "is_replay" =>
            /\ lastCall.result =
                   (/\ lastCall.pubkey \in DOMAIN anti_replay_timestamps
                    /\ lastCall.timestamp
                           <= anti_replay_timestamps[lastCall.pubkey])
            /\ lastCall.before = None => ~lastCall.result)
    /\ [](lastCall.op = "store_timestamp" =>
            \A t \in Stamps :
                is_replay(anti_replay_timestamps, lastCall.pubkey, t)
                    = (t <= lastCall.timestamp))
    /\ [][lastCall'.op = "is_replay" =>
            anti_replay_timestamps' = anti_replay_timestamps]_vars

\* is_replay was asked about the very timestamp that is stored for the key,
\* while another key has no entry
C12_Witness ==
    /\ lastCall.op = "is_replay"
    /\ lastCall.before = Some(lastCall.timestamp)
    /\ lastCall.result
    /\ DOMAIN anti_replay_timestamps # Keys

\* C13: a Mutual responder is at the replay check or the store only after its
\* trust check passed, constructs a response only after the trust check and
\* the replay check with its store passed, and writes to the socket only after
\* that; a handshake that was refused by a policy check or a lock has written
\* nothing.
C13_InboundOrder ==
    \A c \in Conns :
        auth_mode["server"] = "Mutual" =>
            /\ rsp[c].pc \in {"trust_lock", "trust"} =>
                   rsp[c].done = << "read", "parse" >>
            /\ rsp[c].pc \in {"replay", "replay_locked", "store"} =>
                   rsp[c].done = << "read", "parse", "trust" >>
            /\ rsp[c].pc = "respond" =>
                   rsp[c].done = << "read", "parse", "trust", "replay" >>
            /\ rsp[c].server_response # << >> =>
                   IsPrefix(<< "read", "parse", "trust", "replay", "respond" >>,
                            rsp[c].done)
            /\ s2c[c] # << >> =>
                   /\ rsp[c].pc = "established"
                   /\ rsp[c].done = FullInbound("Mutual")
            /\ rsp[c].err \in PolicyErrors \cup {"LockFailure"} =>
                   /\ s2c[c] = << >>
                   /\ rsp[c].nwritten = 0

\* one dialer got its reply, an untrusted one got none
C13_Witness ==
    /\ auth_mode["server"] = "Mutual"
    /\ \E c1, c2 \in Conns :
        /\ rsp[c1].pc = "established"
        /\ s2c[c1] # << >>
        /\ rsp[c2].err = "UntrustedPeer"
        /\ s2c[c2] = << >>

\* the handshakes of key k that passed the store and have not failed since
StoredAndAlive(k) ==
    {c \in Conns : /\ rsp[c].pc \in {"respond", "write", "established"}
                   /\ rsp[c].their_public_key = Some(k)}

\* C14 as stated: a handshake that ends in Aborted, at whatever step, leaves
\* the ReplayGuard as it was before it, so every timestamp that was stored was
\* stored by a handshake of that key that is Established or still on its way
\* there.
C14_OnlyCompletedStore ==
    \A k \in Keys : Len(accepted[k]) <= Cardinality(StoredAndAlive(k))

\* C14 amended: the ReplayGuard changes only in the store step of a Mutual
\* inbound handshake whose trust check and replay check passed, before the
\* response is constructed: the entry of that handshake's key becomes its
\* timestamp, which is above the previous one, and nothing else changes.  The
\* step that aborts a handshake changes nothing, so a handshake that aborts
\* before its store leaves the ReplayGuard as it was and one that aborts at
\* the respond step or at the write leaves its timestamp stored.  Entries
\* are never removed.
C14_StoredAtReplayStep ==
    /\ [][anti_replay_timestamps' # anti_replay_timestamps =>
            \E c \in Conns :
                /\ auth_mode["server"] = "Mutual"
                /\ rsp[c].pc = "store"
                /\ rsp'[c].pc = "respond"
                /\ rsp[c].done = << "read", "parse", "trust" >>
                /\ LET k == Unwrap(rsp[c].their_public_key)
                       t == CarriedTimestamp(rsp[c].payload)
                   IN  /\ k \in DOMAIN anti_replay_timestamps =>
                              anti_replay_timestamps[k] < t
                       /\ anti_replay_timestamps' =
                              [x \in DOMAIN anti_replay_timestamps \cup {k} |->
                                  IF x = k THEN t
                                  ELSE anti_replay_timestamps[x]]]_vars
    /\ [][\A c \in Conns :
            (RspStep(c) /\ rsp'[c].pc = "aborted") =>
                /\ anti_replay_timestamps' = anti_replay_timestamps
                /\ accepted' = accepted]_vars
    /\ [][\A k \in DOMAIN anti_replay_timestamps :
            k \in DOMAIN anti_replay_timestamps']_vars

\* a timestamp is stored although every handshake that got past reading has
\* been aborted
C14_Witness ==
    /\ DOMAIN anti_replay_timestamps # {}
    /\ \A c \in Conns : rsp[c].pc \in {"idle", "read", "aborted"}
    /\ \E c \in Conns : rsp[c].err \in {"CryptoFailure", "Transport"}

\* C15: the replay step of a Mutual responder whose parsed payload is not 8
\* bytes long aborts the handshake with MalformedPayload; that step neither
\* takes the ReplayGuard lock nor decodes or stores a timestamp, and the
\* handshake has written no response.  Only a handshake with an 8-byte payload
\* ever holds the lock or a decoded timestamp.
C15_MalformedPayload ==
    /\ [][\A c \in Conns :
            (/\ rsp[c].pc = "replay"
             /\ RspStep(c)
             /\ Len(rsp[c].payload) # PAYLOAD_SIZE) =>
                /\ rsp'[c].pc = "aborted"
                /\ rsp'[c].err = "MalformedPayload"
                /\ rsp'[c].client_timestamp = None
                /\ arLock' = arLock
                /\ anti_replay_timestamps' = anti_replay_timestamps
                /\ accepted' = accepted
                /\ s2c' = s2c]_vars
    /\ [](\A c \in Conns :
            /\ (arLock = c \/ IsSome(rsp[c].client_timestamp)) =>
                   Len(rsp[c].payload) = PAYLOAD_SIZE
            /\ rsp[c].err = "MalformedPayload" =>
                   /\ rsp[c].nwritten = 0
                   /\ s2c[c] = << >>)

\* a ServerOnly dialer with a trusted key reached a Mutual listener: its
\* message carried no timestamp and the handshake was refused as malformed
C15_Witness ==
    \E c \in Conns :
        /\ auth_mode["server"] = "Mutual"
        /\ rsp[c].err = "MalformedPayload"
        /\ ini[c].payload = None
        /\ ini[c].nwritten = handshake_init_msg_len(PAYLOAD_SIZE)

\* the step of handshake c fails on a lock and changes nothing else
LockFailureStep(c) ==
    /\ rsp'[c].pc = "aborted"
    /\ rsp'[c].err = "LockFailure"
    /\ rsp'[c].session = None
    /\ anti_replay_timestamps' = anti_replay_timestamps
    /\ accepted' = accepted
    /\ arLock' = arLock
    /\ tpReaders' = tpReaders
    /\ s2c' = s2c

\* C16: when the trusted-peer lock is poisoned the step that would take it
\* aborts the handshake with LockFailure, and so does the step that would take
\* the ReplayGuard lock (for an 8-byte payload) when that lock is poisoned;
\* neither step stores a timestamp or writes anything.  No handshake is ever
\* at the lookup, or at the replay check or the store, under a poisoned lock,
\* and a handshake that failed on a lock has no session and has written no
\* response.
C16_LockFailureAborts ==
    /\ [][\A c \in Conns :
            (/\ rsp[c].pc = "trust_lock"
             /\ RspStep(c)
             /\ "trusted_peers" \in poisoned) => LockFailureStep(c)]_vars
    /\ [][\A c \in Conns :
            (/\ rsp[c].pc = "replay"
             /\ RspStep(c)
             /\ Len(rsp[c].payload) = PAYLOAD_SIZE
             /\ "anti_replay_timestamps" \in poisoned) => LockFailureStep(c)]_vars
    /\ [](\A c \in Conns :
            /\ rsp[c].pc = "trust" => "trusted_peers" \notin poisoned
            /\ rsp[c].pc \in {"replay_locked", "store"} =>
                   "anti_replay_timestamps" \notin poisoned
            /\ rsp[c].err = "LockFailure" =>
                   /\ rsp[c].pc = "aborted"
                   /\ rsp[c].session = None
                   /\ rsp[c].nwritten = 0
                   /\ s2c[c] = << >>)

\* one handshake failed on the poisoned ReplayGuard lock after its trust check
\* under the intact trusted-peer lock, another was established before
C16_Witness ==
    /\ poisoned = {"anti_replay_timestamps"}
    /\ \E c1, c2 \in Conns :
        /\ rsp[c1].err = "LockFailure"
        /\ rsp[c2].pc = "established"

\* the states in which upgrade_inbound is not running or is suspended on a
\* socket operation
AtAwaitOrOutside(c) ==
    rsp[c].pc \in {"idle", "read", "write", "established", "aborted"}

\* C17: a handshake holds a read guard on the trusted-peer set exactly while
\* it is at the lookup and the write guard on the ReplayGuard exactly while it
\* is between taking it and the end of its check or store; a handshake that is
\* suspended on a socket read or write, has not started or has returned
\* (Established or Aborted) holds neither.
C17_NoLockAcrossAwait ==
    \A c \in Conns :
        /\ c \in tpReaders <=> rsp[c].pc = "trust"
        /\ arLock = c <=> rsp[c].pc \in {"replay_locked", "store"}
        /\ AtAwaitOrOutside(c) => (c \notin tpReaders /\ arLock # c)

\* one handshake waits for its write to complete while another one is at the
\* lookup under its read guard
C17_Witness ==
    \E c1, c2 \in Conns :
        /\ rsp[c1].pc = "write"
        /\ rsp[c2].pc = "trust"
        /\ tpReaders = {c2}
        /\ arLock = 0

RspTerminal(c) == rsp[c].pc \in {"established", "aborted"}

\* C18: whatever the other handshakes do, and wherever they stay suspended, a
\* handshake that is between two socket operations gets to its next socket
\* operation or returns; a handshake whose message has arrived and whose
\* socket operations complete returns, Established or Aborted; and the holder
\* of a lock can always take
\* its next step, so no handshake waits for a lock for ever.
C18_NoBlocking ==
    /\ \A c \in Conns :
           (rsp[c].pc \in {"trust_lock", "trust", "replay", "replay_locked",
                           "store", "respond"})
               ~> (rsp[c].pc \in {"write", "established", "aborted"})
    /\ \A c \in Conns :
           WF_vars(RspSocket(c)) =>
               ((rsp[c].pc # "idle" /\ (rsp[c].pc = "read" => c2s[c] # << >>))
                    ~> RspTerminal(c))
    /\ [](\A c \in Conns :
            /\ arLock = c => ENABLED (InIsReplay(c) \/ InStore(c))
            /\ c \in tpReaders => ENABLED InCheckTrust(c))

\* a handshake is Established while another one has been called and is still
\* suspended on its read, nothing having arrived for it
C18_Witness ==
    \E c1, c2 \in Conns :
        /\ rsp[c1].pc = "established"
        /\ rsp[c2].pc = "read"
        /\ c2s[c2] = << >>
        /\ ini[c2].pc = "idle"

\* C19: a direct call store_timestamp(k, t) is always possible and leaves t
\* stored for k, whether k had no entry or a smaller, equal or greater one;
\* the keys that had an entry keep it, with the same value unless the key is
\* k, and no other key gains one.
C19_StoreSetsExactly ==
    /\ [][lastCall'.op = "store_timestamp" =>
            LET k == lastCall'.pubkey
                t == lastCall'.timestamp
            IN  /\ DOMAIN anti_replay_timestamps' =
                       DOMAIN anti_replay_timestamps \cup {k}
                /\ anti_replay_timestamps'[k] = t
                /\ \A x \in DOMAIN anti_replay_timestamps \ {k} :
                       anti_replay_timestamps'[x] = anti_replay_timestamps[x]]_vars
    /\ [](\A k \in Keys, t \in Stamps : ENABLED CallStoreTimestamp(k, t))

\* a smaller timestamp was stored over a greater one while another key keeps
\* its entry
C19_Witness ==
    /\ lastCall.op = "store_timestamp"
    /\ lastCall.before # None
    /\ lastCall.timestamp < Unwrap(lastCall.before)
    /\ anti_replay_timestamps[lastCall.pubkey] = lastCall.timestamp
    /\ DOMAIN anti_replay_timestamps # {lastCall.pubkey}

\* some entry of the trusted-peer set declares key k
Declared(k) == \E p \in DOMAIN trusted_peers : trusted_peers[p] = k

\* C20: the lookup of a Mutual inbound handshake decides by the trusted-peer
\* set as it is at that step: the handshake goes on to the replay step when an
\* entry declares the initiator's key and is aborted with UntrustedPeer when
\* none does, whatever the ReplayGuard holds.  The set does not change while a
\* handshake holds its read guard, and no step of a handshake changes it.
C20_TrustAtLookup ==
    /\ [][\A c \in Conns :
            (rsp[c].pc = "trust" /\ RspStep(c)) =>
                IF Declared(Unwrap(rsp[c].their_public_key))
                THEN /\ rsp'[c].pc = "replay"
                     /\ rsp'[c].err = "None"
                ELSE /\ rsp'[c].pc = "aborted"
                     /\ rsp'[c].err = "UntrustedPeer"]_vars
    /\ [][trusted_peers' # trusted_peers =>
            /\ tpReaders = {}
            /\ rsp' = rsp
            /\ ini' = ini]_vars

\* the client key was accepted and has a timestamp in the ReplayGuard, its
\* entry was then removed from the set, and a new handshake of that key is at
\* its lookup
C20_Witness ==
    \E c1, c2 \in Conns :
        /\ rsp[c1].pc = "established"
        /\ rsp[c1].ret = Some("kC")
        /\ "kC" \in DOMAIN anti_replay_timestamps
        /\ rsp[c2].pc = "trust"
        /\ rsp[c2].their_public_key = Some("kC")
        /\ ~Declared("kC")

====
